---- MODULE Spec2Model ----
(***************************************************************************)
(* A model of rust-grad: the Wengert list (Graph / Node), the Tensor       *)
(* handle with its operators, the forward and backward traversals, the     *)
(* value()/grad() accessors, the Function catalog (Add, Mul, MatMul, ExpM) *)
(* and the Raw cells the values live in.                                   *)
(*                                                                         *)
(* Element numbers are exact rationals <<numerator, denominator>>; the     *)
(* rounding of f32 is not modelled.  Node indices are 0-based as in the    *)
(* source; the node with index i is nodes[g][i + 1].  A Raw<T> is the      *)
(* address of a heap cell, 0 stands for Option::None.  A panic ends the    *)
(* run: the state at the panic is kept and no operation follows it.        *)
(***************************************************************************)
EXTENDS Integers, Sequences, FiniteSets, TLC

VARIABLES
    nodes,    \* nodes[g]: the node list of Graph instance g
    heap,     \* heap[c]: the tensor stored in cell c (cells are never freed)
    panic,    \* "none", or the message of the panic that ended the run
    last,     \* the last building or traversal call
    prev,     \* the building or traversal call before it
    ret,      \* the last value()/grad() call and what it returned
    ncalls,   \* number of forward/backward calls made
    nbwd,     \* number of backward calls made
    fwdmax    \* largest index forward was called on, -1 if none

vars == <<nodes, heap, panic, last, prev, ret, ncalls, nbwd, fwdmax>>

-----------------------------------------------------------------------------
(* Bounds of the model *)

MaxNodes == 3   \* nodes of the graph in Spec (scenario A adds its fourth)
MaxCalls == 2   \* forward/backward calls per run in Spec
MaxNodesR == 2  \* nodes of the graph in SpecRead
MaxCallsR == 2  \* forward/backward calls per run in SpecRead
MaxBuild == 4   \* nodes of the graph in SpecBuild
MaxTwo == 2     \* nodes of the first graph in SpecTwo
MaxOther == 1   \* nodes of the second graph in SpecTwo
MaxNodesM == 4  \* nodes of the graph in SpecMat
MaxCallsM == 1  \* forward calls per run in SpecMat
MaxNodesA == 2  \* nodes of the graph in SpecAll
MaxCallsA == 2  \* forward/backward calls per run in SpecAll

-----------------------------------------------------------------------------
(* f32 elements, as exact rationals *)

Abs(x) == IF x < 0 THEN -x ELSE x

RECURSIVE Gcd(_, _)
Gcd(a, b) == IF b = 0 THEN a ELSE Gcd(b, a % b)

\* the rational n/d in lowest terms with a positive denominator (d # 0)
Rat(n, d) ==
    IF d = 1 THEN <<n, 1>>
    ELSE LET g == Gcd(Abs(n), Abs(d))
             s == IF d < 0 THEN -1 ELSE 1
         IN  <<(s * n) \div g, (s * d) \div g>>

R(n) == <<n, 1>>

\* sums over the least common denominator
RAdd(a, b) ==
    LET g == Gcd(a[2], b[2])
    IN  Rat(a[1] * (b[2] \div g) + b[1] * (a[2] \div g), (a[2] \div g) * b[2])

RSub(a, b) ==
    LET g == Gcd(a[2], b[2])
    IN  Rat(a[1] * (b[2] \div g) - b[1] * (a[2] \div g), (a[2] \div g) * b[2])
RMul(a, b) == Rat(a[1] * b[1], a[2] * b[2])
\* b # 0 wherever the source divides (the divisor is +-k!)
RDiv(a, b) == Rat(a[1] * b[2], a[2] * b[1])

-----------------------------------------------------------------------------
(* TensorType for Array<f32, IxDyn>: [sh |-> shape, d |-> row-major data] *)

\* what a panicking tensor operation "returns": no array has this form
Panicked == [sh |-> <<>>, d |-> <<>>]
NoTensor == [sh |-> <<0>>, d |-> <<>>]

Vec(xs) == [sh |-> <<Len(xs)>>, d |-> [k \in 1..Len(xs) |-> R(xs[k])]]
Mat(r, c, xs) == [sh |-> <<r, c>>, d |-> [k \in 1..Len(xs) |-> R(xs[k])]]

\* the operands of an element-wise operation have one shape (broadcasting
\* between unequal shapes is not modelled: every tape here has one shape)
Conform(a, b) == a # Panicked /\ b # Panicked /\ a.sh = b.sh

T_add(a, b) ==
    IF ~Conform(a, b) THEN Panicked
    ELSE [sh |-> a.sh, d |-> [k \in 1..Len(a.d) |-> RAdd(a.d[k], b.d[k])]]

T_sub(a, b) ==
    IF ~Conform(a, b) THEN Panicked
    ELSE [sh |-> a.sh, d |-> [k \in 1..Len(a.d) |-> RSub(a.d[k], b.d[k])]]

T_mul(a, b) ==
    IF ~Conform(a, b) THEN Panicked
    ELSE [sh |-> a.sh, d |-> [k \in 1..Len(a.d) |-> RMul(a.d[k], b.d[k])]]

T_div(a, b) ==
    IF ~Conform(a, b) THEN Panicked
    ELSE [sh |-> a.sh, d |-> [k \in 1..Len(a.d) |-> RDiv(a.d[k], b.d[k])]]

RECURSIVE DotSum(_, _, _, _, _)
DotSum(a, b, i, j, k) ==
    IF k = 0 THEN R(0)
    ELSE RAdd(DotSum(a, b, i, j, k - 1),
              RMul(a.d[(i - 1) * a.sh[2] + k], b.d[(k - 1) * b.sh[2] + j]))

T_matmul(a, b) ==
    IF a = Panicked \/ b = Panicked THEN Panicked
    ELSE IF Len(a.sh) # 2 \/ Len(b.sh) # 2 THEN Panicked   \* "Not a 2x2 matrix"
    ELSE IF a.sh[2] # b.sh[1] THEN Panicked                \* dot: shapes differ
    ELSE [sh |-> <<a.sh[1], b.sh[2]>>,
          d  |-> [k \in 1..(a.sh[1] * b.sh[2]) |->
                    DotSum(a, b, ((k - 1) \div b.sh[2]) + 1,
                                 ((k - 1) % b.sh[2]) + 1, a.sh[2])]]

T_t(a) ==
    IF a = Panicked \/ Len(a.sh) # 2 THEN a
    ELSE [sh |-> <<a.sh[2], a.sh[1]>>,
          d  |-> [k \in 1..Len(a.d) |->
                    a.d[(((k - 1) % a.sh[1])) * a.sh[2] + ((k - 1) \div a.sh[1]) + 1]]]

\* e^x for one element: exact at 0; elsewhere the series 1 + x + x^2/2 + x^3/6
ExpScalar(x) ==
    IF x = R(0) THEN R(1)
    ELSE RAdd(RAdd(R(1), x),
              RAdd(RDiv(RMul(x, x), R(2)), RDiv(RMul(x, RMul(x, x)), R(6))))

T_expm(a) ==
    IF a = Panicked THEN Panicked
    ELSE [sh |-> a.sh, d |-> [k \in 1..Len(a.d) |-> ExpScalar(a.d[k])]]

T_val_like(a, val) == [sh |-> a.sh, d |-> [k \in 1..Len(a.d) |-> R(val)]]

T_ones_like(a) == [sh |-> a.sh, d |-> [k \in 1..Len(a.d) |-> R(1)]]

T_eye_like(a) ==
    IF a = Panicked \/ Len(a.sh) = 0 THEN Panicked
    ELSE LET n == a.sh[1]
         IN  [sh |-> <<n, n>>,
              d  |-> [k \in 1..(n * n) |->
                        IF (k - 1) \div n = (k - 1) % n THEN R(1) ELSE R(0)]]

T_get_value_cpu(a) == a

-----------------------------------------------------------------------------
(* Raw: a cell of the heap *)

None == 0

\* Raw::new(data): the heap with one more cell; the new cell is Len(h) + 1
Raw_new(h, data) == Append(h, data)

Raw_value(h, c) == h[c]

-----------------------------------------------------------------------------
(* Function, Node, Graph *)

FnNone == [kind |-> "None"]
FnAdd == [kind |-> "Add"]
FnMul == [kind |-> "Mul", x_ctx |-> None, y_ctx |-> None]
FnMatMul == [kind |-> "MatMul", x_ctx |-> None, y_ctx |-> None]
FnExpM == [kind |-> "ExpM", a |-> None, res |-> None]

Arity(f) ==
    CASE f.kind = "None" -> 0
      [] f.kind = "ExpM" -> 1
      [] OTHER -> 2

NewNode(d0, d1, f, v) ==
    [deps |-> <<d0, d1>>, func |-> f, value |-> v, grad |-> None,
     ctx |-> <<None, None>>]

Graph_new == <<>>

Graph_len(g) == Len(nodes[g])

NodeAt(ns, i) == ns[i + 1]

\* a call: the method, the handle it is called on (graph, index), the other
\* operand (ograph, other), the tensor passed, whether it returned, the
\* index of the handle returned (-1 where there is none), and for backward
\* the steps of its loop in the order they were taken
NoCall == [op |-> "none", graph |-> 0, index |-> -1, ograph |-> 0, other |-> -1,
           arg |-> NoTensor, ok |-> TRUE, out |-> -1, log |-> <<>>]

Call(op, g, i, g2, j, a, ok, out) ==
    [op |-> op, graph |-> g, index |-> i, ograph |-> g2, other |-> j,
     arg |-> a, ok |-> ok, out |-> out, log |-> <<>>]

\* a step of the backward loop: node i's backward was invoked
EvBwd(i) == [ev |-> "bwd", node |-> i, slot |-> -1, dep |-> -1]

\* a step of the backward loop: slot j of node i wrote the gradient of node d
EvAcc(i, j, d) == [ev |-> "acc", node |-> i, slot |-> j, dep |-> d]

NoRead == [op |-> "none", index |-> -1, val |-> NoTensor]

-----------------------------------------------------------------------------
(* Inputs *)

\* the value offered for a leaf created at index len: x = [1,2], y = [3,4]
LeafVals(len) == IF len % 2 = 0 THEN {Vec(<<1, 2>>)} ELSE {Vec(<<3, 4>>)}
Seeds == {Vec(<<1, 1>>)}

-----------------------------------------------------------------------------
(* Building the tape *)

Init ==
    /\ nodes = [g \in {1, 2} |-> Graph_new]
    /\ heap = <<>>
    /\ panic = "none"
    /\ last = NoCall
    /\ prev = NoCall
    /\ ret = NoRead
    /\ ncalls = 0
    /\ nbwd = 0
    /\ fwdmax = -1

\* Graph::tensor(value)
Graph_tensor(g, v) ==
    /\ panic = "none"
    /\ LET len == Len(nodes[g])
       IN  /\ heap' = Raw_new(heap, v)
           /\ nodes' = [nodes EXCEPT ![g] =
                           Append(@, NewNode(len, len, FnNone, Len(heap) + 1))]
           /\ last' = Call("tensor", g, -1, 0, -1, v, TRUE, len)
    /\ prev' = last
    /\ ret' = NoRead
    /\ UNCHANGED <<panic, ncalls, nbwd, fwdmax>>

\* the push of a two-operand operator without its assert_eq!
AppendTwo_unchecked(op, f, g, i, g2, j) ==
    /\ panic = "none"
    /\ nodes' = [nodes EXCEPT ![g] = Append(@, NewNode(i, j, f, None))]
    /\ last' = Call(op, g, i, g2, j, NoTensor, TRUE, Len(nodes[g]))
    /\ prev' = last
    /\ ret' = NoRead
    /\ UNCHANGED <<heap, panic, ncalls, nbwd, fwdmax>>

\* a two-operand operator pushing its node with the value cell of its first
\* operand instead of None
AppendTwo_eager(op, f, g, i, g2, j) ==
    /\ panic = "none"
    /\ IF g # g2
       THEN /\ panic' = "assertion failed: (left == right)"
            /\ last' = Call(op, g, i, g2, j, NoTensor, FALSE, -1)
            /\ UNCHANGED nodes
       ELSE /\ nodes' = [nodes EXCEPT ![g] =
                           Append(@, NewNode(i, j, f, NodeAt(nodes[g], i).value))]
            /\ last' = Call(op, g, i, g2, j, NoTensor, TRUE, Len(nodes[g]))
            /\ UNCHANGED panic
    /\ prev' = last
    /\ ret' = NoRead
    /\ UNCHANGED <<heap, ncalls, nbwd, fwdmax>>

\* the node pushed by a two-operand operator, after its assert_eq!
AppendTwo(op, f, g, i, g2, j) ==
    /\ panic = "none"
    /\ IF g # g2
       THEN /\ panic' = "assertion failed: (left == right)"
            /\ last' = Call(op, g, i, g2, j, NoTensor, FALSE, -1)
            /\ UNCHANGED nodes
       ELSE /\ nodes' = [nodes EXCEPT ![g] = Append(@, NewNode(i, j, f, None))]
            /\ last' = Call(op, g, i, g2, j, NoTensor, TRUE, Len(nodes[g]))
            /\ UNCHANGED panic
    /\ prev' = last
    /\ ret' = NoRead
    /\ UNCHANGED <<heap, ncalls, nbwd, fwdmax>>

\* impl Add for Tensor
Tensor_add(g, i, g2, j) == AppendTwo("add", FnAdd, g, i, g2, j)

\* impl Mul for Tensor
Tensor_mul(g, i, g2, j) == AppendTwo("mul", FnMul, g, i, g2, j)

\* Tensor::matmul
Tensor_matmul(g, i, g2, j) == AppendTwo("matmul", FnMatMul, g, i, g2, j)

\* Tensor::expm with the deps of a leaf, [len, len], instead of [index, index]
Tensor_expm_leafdeps(g, i) ==
    /\ panic = "none"
    /\ nodes' = [nodes EXCEPT ![g] =
                    Append(@, NewNode(Len(@), Len(@), FnExpM, None))]
    /\ last' = Call("expm", g, i, 0, -1, NoTensor, TRUE, Len(nodes[g]))
    /\ prev' = last
    /\ ret' = NoRead
    /\ UNCHANGED <<heap, panic, ncalls, nbwd, fwdmax>>

\* Tensor::expm
Tensor_expm(g, i) ==
    /\ panic = "none"
    /\ nodes' = [nodes EXCEPT ![g] = Append(@, NewNode(i, i, FnExpM, None))]
    /\ last' = Call("expm", g, i, 0, -1, NoTensor, TRUE, Len(nodes[g]))
    /\ prev' = last
    /\ ret' = NoRead
    /\ UNCHANGED <<heap, panic, ncalls, nbwd, fwdmax>>

\* the indices of the handles of graph g
Handles(g) == 0..(Len(nodes[g]) - 1)

(* One graph, every operator, no traversal *)

BuildNext ==
    \/ \E v \in LeafVals(Len(nodes[1])) :
          Len(nodes[1]) < MaxBuild /\ Graph_tensor(1, v)
    \/ \E i \in Handles(1), j \in Handles(1) :
          Len(nodes[1]) < MaxBuild /\ Tensor_add(1, i, 1, j)
    \/ \E i \in Handles(1), j \in Handles(1) :
          Len(nodes[1]) < MaxBuild /\ Tensor_mul(1, i, 1, j)
    \/ \E i \in Handles(1), j \in Handles(1) :
          Len(nodes[1]) < MaxBuild /\ Tensor_matmul(1, i, 1, j)
    \/ \E i \in Handles(1) : Len(nodes[1]) < MaxBuild /\ Tensor_expm(1, i)

SpecBuild == Init /\ [][BuildNext]_vars

(* Two graphs: the operands of +, * and matmul may come from either *)

Bound(g) == IF g = 1 THEN MaxTwo ELSE MaxOther

\* room for the node the call would push (a failing call pushes nothing)
Room(g, g2) == g # g2 \/ Len(nodes[g]) < Bound(g)

TwoNext ==
    \/ \E g \in {1, 2} : \E v \in LeafVals(Len(nodes[g])) :
          Len(nodes[g]) < Bound(g) /\ Graph_tensor(g, v)
    \/ \E g \in {1, 2}, g2 \in {1, 2} : \E i \in Handles(g), j \in Handles(g2) :
          Room(g, g2) /\ Tensor_add(g, i, g2, j)
    \/ \E g \in {1, 2}, g2 \in {1, 2} : \E i \in Handles(g), j \in Handles(g2) :
          Room(g, g2) /\ Tensor_mul(g, i, g2, j)
    \/ \E g \in {1, 2}, g2 \in {1, 2} : \E i \in Handles(g), j \in Handles(g2) :
          Room(g, g2) /\ Tensor_matmul(g, i, g2, j)

SpecTwo == Init /\ [][TwoNext]_vars

-----------------------------------------------------------------------------
(* The Function catalog.  forward returns the function with its cached     *)
(* state, the heap, the cell of the result and the panic, if any; backward *)
(* returns the heap, the two partials and the panic, if any.               *)

UnwrapNone == "called Option::unwrap() on a None value"
ShapePanic == "ndarray: could not broadcast array"
RankPanic == "Not a 2x2 matrix"
BorrowPanic == "already mutably borrowed"

FwdOut(f, h, t_c, msg) ==
    IF t_c = Panicked
    THEN [func |-> f, heap |-> h, out |-> None, panic |-> msg]
    ELSE [func |-> f, heap |-> Raw_new(h, t_c), out |-> Len(h) + 1, panic |-> "none"]

\* Add::forward adding into the cell of its first operand
Add_forward_inplace(f, h, t_a, t_b) ==
    [func |-> f, heap |-> [h EXCEPT ![t_a] = T_add(h[t_a], h[t_b])],
     out |-> t_a, panic |-> "none"]

Add_forward(f, h, t_a, t_b) == FwdOut(f, h, T_add(h[t_a], h[t_b]), ShapePanic)

Add_backward(f, h, grad) ==
    [heap |-> h, ctx |-> <<grad, grad>>, panic |-> "none"]

Mul_forward(f, h, t_a, t_b) ==
    FwdOut([f EXCEPT !.x_ctx = t_a, !.y_ctx = t_b], h,
           T_mul(h[t_a], h[t_b]), ShapePanic)

\* two fresh cells holding a and b, unless computing either panicked
BwdOut2(h, a, b, msg) ==
    IF a = Panicked \/ b = Panicked
    THEN [heap |-> h, ctx |-> <<None, None>>, panic |-> msg]
    ELSE [heap |-> Raw_new(Raw_new(h, a), b),
          ctx |-> <<Len(h) + 1, Len(h) + 2>>, panic |-> "none"]

\* Mul::backward with its two partials in the other order: [a*g, b*g]
Mul_backward_swapped(f, h, grad) ==
    IF f.x_ctx = None \/ f.y_ctx = None
    THEN [heap |-> h, ctx |-> <<None, None>>, panic |-> UnwrapNone]
    ELSE BwdOut2(h, T_mul(h[f.x_ctx], h[grad]), T_mul(h[f.y_ctx], h[grad]),
                 ShapePanic)

Mul_backward(f, h, grad) ==
    IF f.x_ctx = None \/ f.y_ctx = None
    THEN [heap |-> h, ctx |-> <<None, None>>, panic |-> UnwrapNone]
    ELSE BwdOut2(h, T_mul(h[f.y_ctx], h[grad]), T_mul(h[f.x_ctx], h[grad]),
                 ShapePanic)

\* MatMul::forward storing an empty array where the product does not exist
MatMul_forward_lenient(f, h, t_a, t_b) ==
    LET t_c == T_matmul(h[t_a], h[t_b])
    IN  [func |-> [f EXCEPT !.x_ctx = t_a, !.y_ctx = t_b],
         heap |-> Raw_new(h, IF t_c = Panicked THEN NoTensor ELSE t_c),
         out |-> Len(h) + 1, panic |-> "none"]

MatMul_forward(f, h, t_a, t_b) ==
    FwdOut([f EXCEPT !.x_ctx = t_a, !.y_ctx = t_b], h,
           T_matmul(h[t_a], h[t_b]), RankPanic)

MatMul_backward(f, h, grad) ==
    IF f.x_ctx = None \/ f.y_ctx = None
    THEN [heap |-> h, ctx |-> <<None, None>>, panic |-> UnwrapNone]
    ELSE BwdOut2(h, T_matmul(h[grad], T_t(h[f.y_ctx])),
                    T_matmul(T_t(h[f.x_ctx]), h[grad]), RankPanic)

ExpM_forward(f, h, t_a) ==
    LET val == h[t_a]
        eye == T_eye_like(val)
        t_out == T_mul(eye, T_expm(val))
    IN  IF t_out = Panicked
        THEN [func |-> [f EXCEPT !.a = t_a], heap |-> h, out |-> None,
              panic |-> ShapePanic]
        ELSE [func |-> [f EXCEPT !.a = t_a, !.res = Len(h) + 1],
              heap |-> Raw_new(h, t_out), out |-> Len(h) + 1, panic |-> "none"]

commu(a, b) == T_sub(T_matmul(a, b), T_matmul(b, a))

\* the loop of ExpM::backward stopping one order early, "for o in 2..6"
RECURSIVE ExpM_series_short(_, _, _, _, _)
ExpM_series_short(a, p_commu, total, factorial, o) ==
    IF o >= 6 THEN total
    ELSE LET fact == factorial * o
             factor == IF o % 2 = 0 THEN -1 ELSE 1
             new_commu == commu(a, p_commu)
             fac_mat == T_val_like(a, factor * fact)
         IN  ExpM_series_short(a, new_commu,
                               T_add(total, T_div(new_commu, fac_mat)),
                               fact, o + 1)

\* the loop "for o in 2..7" of ExpM::backward, from order o on
RECURSIVE ExpM_series(_, _, _, _, _)
ExpM_series(a, p_commu, total, factorial, o) ==
    IF o >= 7 THEN total
    ELSE LET fact == factorial * o
             factor == IF o % 2 = 0 THEN -1 ELSE 1
             new_commu == commu(a, p_commu)
             fac_mat == T_val_like(a, factor * fact)
         IN  ExpM_series(a, new_commu, T_add(total, T_div(new_commu, fac_mat)),
                         fact, o + 1)

ExpM_backward(f, h, grad) ==
    IF f.a = None \/ f.res = None
    THEN [heap |-> h, ctx |-> <<None, None>>, panic |-> UnwrapNone]
    ELSE LET total == ExpM_series(h[f.a], h[grad], h[grad], 1, 2)
             a == T_matmul(h[f.res], total)
         IN  IF a = Panicked
             THEN [heap |-> h, ctx |-> <<None, None>>, panic |-> RankPanic]
             ELSE [heap |-> Raw_new(h, a), ctx |-> <<Len(h) + 1, None>>,
                   panic |-> "none"]

\* OneValuedFn::forward, dispatched on the boxed function
One_forward(f, h, t_a) == ExpM_forward(f, h, t_a)

\* TwoValuedFn::forward
Two_forward(f, h, t_a, t_b) ==
    CASE f.kind = "Add" -> Add_forward(f, h, t_a, t_b)
      [] f.kind = "Mul" -> Mul_forward(f, h, t_a, t_b)
      [] f.kind = "MatMul" -> MatMul_forward(f, h, t_a, t_b)

\* OneValuedFn::backward and TwoValuedFn::backward
Fn_backward(f, h, grad) ==
    CASE f.kind = "Add" -> Add_backward(f, h, grad)
      [] f.kind = "Mul" -> Mul_backward(f, h, grad)
      [] f.kind = "MatMul" -> MatMul_backward(f, h, grad)
      [] f.kind = "ExpM" -> ExpM_backward(f, h, grad)

-----------------------------------------------------------------------------
(* Tensor::forward.  A traversal state is [ns, heap, panic].               *)

\* the body of "for i in 0..self.index + 1"
ForwardNode(st, i) ==
    LET node == NodeAt(st.ns, i)
        d_0 == node.deps[1]
        d_1 == node.deps[2]
        n_l == NodeAt(st.ns, d_0).value
        n_r == NodeAt(st.ns, d_1).value
        arity == Arity(node.func)
    IN  IF arity = 0 THEN st
        ELSE IF d_0 = i \/ (arity = 2 /\ n_l # None /\ d_1 = i)
        THEN [st EXCEPT !.panic = BorrowPanic]
        ELSE IF n_l = None \/ (arity = 2 /\ n_r = None)
        THEN [st EXCEPT !.panic = UnwrapNone]
        ELSE LET r == IF arity = 1
                      THEN One_forward(node.func, st.heap, n_l)
                      ELSE Two_forward(node.func, st.heap, n_l, n_r)
             IN  [ns |-> [st.ns EXCEPT ![i + 1].func = r.func,
                                       ![i + 1].value =
                                           IF r.panic = "none" THEN r.out ELSE @],
                  heap |-> r.heap,
                  panic |-> r.panic]

\* the loop over 0..self.index, one node short
RECURSIVE ForwardLoop_short(_, _, _)
ForwardLoop_short(st, i, t) ==
    IF i >= t \/ st.panic # "none" THEN st
    ELSE ForwardLoop_short(ForwardNode(st, i), i + 1, t)

RECURSIVE ForwardLoop(_, _, _)
ForwardLoop(st, i, t) ==
    IF i > t \/ st.panic # "none" THEN st
    ELSE ForwardLoop(ForwardNode(st, i), i + 1, t)

Tensor_forward(g, t) ==
    /\ panic = "none"
    /\ LET st == ForwardLoop([ns |-> nodes[g], heap |-> heap, panic |-> "none"], 0, t)
       IN  /\ nodes' = [nodes EXCEPT ![g] = st.ns]
           /\ heap' = st.heap
           /\ panic' = st.panic
           /\ last' = Call("forward", g, t, 0, -1, NoTensor, st.panic = "none", -1)
    /\ prev' = last
    /\ ret' = NoRead
    /\ ncalls' = ncalls + 1
    /\ fwdmax' = IF t > fwdmax THEN t ELSE fwdmax
    /\ UNCHANGED nbwd

-----------------------------------------------------------------------------
(* Tensor::backward *)

\* the slot body storing the partial over the gradient instead of adding it
BackwardSlot_overwrite(st, i, j) ==
    LET node == NodeAt(st.ns, i)
        d == node.deps[j + 1]
        w == node.ctx[j + 1]
    IN  IF st.panic # "none" \/ d = i \/ w = None THEN st
        ELSE [st EXCEPT !.heap = Raw_new(@, st.heap[w]),
                        !.ns[d + 1].grad = Len(st.heap) + 1,
                        !.log = Append(@, EvAcc(i, j, d))]

\* the slot body skipping the second slot of a node whose two slots name the
\* same dependency
BackwardSlot_dedup(st, i, j) ==
    LET node == NodeAt(st.ns, i)
        d == node.deps[j + 1]
        node_d == NodeAt(st.ns, d)
        w == node.ctx[j + 1]
    IN  IF st.panic # "none" \/ d = i THEN st
        ELSE IF j = 1 /\ node.deps[1] = node.deps[2] THEN st
        ELSE IF node_d.grad # None
        THEN IF w = None THEN st
             ELSE LET sum == T_add(st.heap[node_d.grad], st.heap[w])
                  IN  IF sum = Panicked THEN [st EXCEPT !.panic = ShapePanic]
                      ELSE [st EXCEPT !.heap[node_d.grad] = sum,
                                      !.log = Append(@, EvAcc(i, j, d))]
        ELSE IF w = None THEN st
             ELSE [st EXCEPT !.heap = Raw_new(@, st.heap[w]),
                             !.ns[d + 1].grad = Len(st.heap) + 1,
                             !.log = Append(@, EvAcc(i, j, d))]

\* the slot body giving a dependency without a gradient the cell of the
\* partial itself instead of a copy of it
BackwardSlot_share(st, i, j) ==
    LET node == NodeAt(st.ns, i)
        d == node.deps[j + 1]
        node_d == NodeAt(st.ns, d)
        w == node.ctx[j + 1]
    IN  IF st.panic # "none" \/ d = i THEN st
        ELSE IF node_d.grad # None
        THEN IF w = None THEN st
             ELSE LET sum == T_add(st.heap[node_d.grad], st.heap[w])
                  IN  IF sum = Panicked THEN [st EXCEPT !.panic = ShapePanic]
                      ELSE [st EXCEPT !.heap[node_d.grad] = sum,
                                      !.log = Append(@, EvAcc(i, j, d))]
        ELSE IF w = None THEN st
             ELSE [st EXCEPT !.ns[d + 1].grad = w,
                             !.log = Append(@, EvAcc(i, j, d))]

\* the body of "for j in 0..2" for node i
BackwardSlot(st, i, j) ==
    LET node == NodeAt(st.ns, i)
        d == node.deps[j + 1]
        node_d == NodeAt(st.ns, d)
        w == node.ctx[j + 1]
    IN  IF st.panic # "none" \/ d = i THEN st
        ELSE IF node_d.grad # None
        THEN IF w = None THEN st
             ELSE LET sum == T_add(st.heap[node_d.grad], st.heap[w])
                  IN  IF sum = Panicked THEN [st EXCEPT !.panic = ShapePanic]
                      ELSE [st EXCEPT !.heap[node_d.grad] = sum,
                                      !.log = Append(@, EvAcc(i, j, d))]
        ELSE IF w = None THEN st
             ELSE [st EXCEPT !.heap = Raw_new(@, st.heap[w]),
                             !.ns[d + 1].grad = Len(st.heap) + 1,
                             !.log = Append(@, EvAcc(i, j, d))]

\* the body of "for i in (0..len).rev()"
BackwardNode(st, i) ==
    LET node == NodeAt(st.ns, i)
    IN  IF Arity(node.func) = 0
        THEN BackwardSlot(BackwardSlot(st, i, 0), i, 1)
        ELSE IF node.grad = None THEN [st EXCEPT !.panic = UnwrapNone]
        ELSE LET r == Fn_backward(node.func, st.heap, node.grad)
             IN  IF r.panic # "none" THEN [st EXCEPT !.panic = r.panic]
                 ELSE LET st1 == [st EXCEPT !.heap = r.heap,
                                            !.ns[i + 1].ctx = r.ctx,
                                            !.log = Append(@, EvBwd(i))]
                      IN  BackwardSlot(BackwardSlot(st1, i, 0), i, 1)

\* the index the reverse loop starts at: len - 1
BackwardStart(len, t) == len - 1

\* the reverse loop visiting the node above again after each node
RECURSIVE BackwardLoop_again(_, _)
BackwardLoop_again(st, i) ==
    IF i < 0 \/ st.panic # "none" THEN st
    ELSE LET s1 == BackwardNode(st, i)
             s2 == IF i + 1 < Len(st.ns) /\ s1.panic = "none"
                   THEN BackwardNode(s1, i + 1) ELSE s1
         IN  BackwardLoop_again(s2, i - 1)

RECURSIVE BackwardLoop(_, _)
BackwardLoop(st, i) ==
    IF i < 0 \/ st.panic # "none" THEN st
    ELSE BackwardLoop(BackwardNode(st, i), i - 1)

\* the seeding block: node.grad = Some(Raw::new(init))
BackwardSeed(ns, h, t, init) ==
    [ns |-> [ns EXCEPT ![t + 1].grad = Len(h) + 1],
     heap |-> Raw_new(h, init),
     panic |-> "none",
     log |-> <<>>]

Tensor_backward(g, t, init) ==
    /\ panic = "none"
    /\ LET len == Graph_len(g)
           st == BackwardLoop(BackwardSeed(nodes[g], heap, t, init),
                              BackwardStart(len, t))
       IN  /\ nodes' = [nodes EXCEPT ![g] = st.ns]
           /\ heap' = st.heap
           /\ panic' = st.panic
           /\ last' = [Call("backward", g, t, 0, -1, init, st.panic = "none", -1)
                          EXCEPT !.log = st.log]
    /\ prev' = last
    /\ ret' = NoRead
    /\ ncalls' = ncalls + 1
    /\ nbwd' = nbwd + 1
    /\ UNCHANGED fwdmax

-----------------------------------------------------------------------------
(* Tensor::value and Tensor::grad *)

\* an accessor returning an empty default where the cell is absent
Read_default(op, idx, cell, msg) ==
    /\ panic = "none"
    /\ ret' = [op |-> op, index |-> idx,
               val |-> IF cell = None THEN NoTensor
                       ELSE T_get_value_cpu(Raw_value(heap, cell))]
    /\ UNCHANGED <<nodes, heap, panic, last, prev, ncalls, nbwd, fwdmax>>

Read(op, idx, cell, msg) ==
    /\ panic = "none"
    /\ IF cell = None
       THEN /\ panic' = msg
            /\ ret' = [op |-> op, index |-> idx, val |-> NoTensor]
       ELSE /\ ret' = [op |-> op, index |-> idx,
                       val |-> T_get_value_cpu(Raw_value(heap, cell))]
            /\ UNCHANGED panic
    /\ UNCHANGED <<nodes, heap, last, prev, ncalls, nbwd, fwdmax>>

Tensor_value(g, i) == Read("value", i, NodeAt(nodes[g], i).value, "Was forward called?")

Tensor_grad(g, i) == Read("grad", i, NodeAt(nodes[g], i).grad, "Was backward called?")

-----------------------------------------------------------------------------
(* One graph of vectors: leaves, +, *, forward, backward *)

\* the tape starts with x = [1,2], y = [3,4], z = x + y of scenario A
ScenarioA_xyz ==
    /\ Len(nodes[1]) >= 3
    /\ NodeAt(nodes[1], 0).func = FnNone
    /\ heap[NodeAt(nodes[1], 0).value] = Vec(<<1, 2>>)
    /\ NodeAt(nodes[1], 1).func = FnNone
    /\ heap[NodeAt(nodes[1], 1).value] = Vec(<<3, 4>>)
    /\ NodeAt(nodes[1], 2).func.kind = "Add"
    /\ NodeAt(nodes[1], 2).deps = <<0, 1>>

\* the tape holds exactly x, y and z
ScenarioA_prefix == Len(nodes[1]) = 3 /\ ScenarioA_xyz

Next ==
    \/ \E v \in LeafVals(Len(nodes[1])) :
          Len(nodes[1]) < MaxNodes /\ Graph_tensor(1, v)
    \/ \E i \in Handles(1), j \in Handles(1) :
          Len(nodes[1]) < MaxNodes /\ Tensor_add(1, i, 1, j)
    \/ \E i \in Handles(1), j \in Handles(1) :
          Len(nodes[1]) < MaxNodes /\ Tensor_mul(1, i, 1, j)
    \/ ScenarioA_prefix /\ Tensor_add(1, 2, 1, 0)      \* w = z + x
    \/ \E t \in Handles(1) : ncalls < MaxCalls /\ Tensor_forward(1, t)
    \/ \E t \in Handles(1), s \in Seeds :
          ncalls < MaxCalls /\ Tensor_backward(1, t, s)

Spec == Init /\ [][Next]_vars

-----------------------------------------------------------------------------
(* The same with the accessors value() and grad(), on a smaller tape *)

ReadNext ==
    \/ \E v \in LeafVals(Len(nodes[1])) :
          Len(nodes[1]) < MaxNodesR /\ Graph_tensor(1, v)
    \/ \E i \in Handles(1), j \in Handles(1) :
          Len(nodes[1]) < MaxNodesR /\ Tensor_add(1, i, 1, j)
    \/ \E i \in Handles(1), j \in Handles(1) :
          Len(nodes[1]) < MaxNodesR /\ Tensor_mul(1, i, 1, j)
    \/ \E t \in Handles(1) : ncalls < MaxCallsR /\ Tensor_forward(1, t)
    \/ \E t \in Handles(1), s \in Seeds :
          ncalls < MaxCallsR /\ Tensor_backward(1, t, s)
    \/ \E i \in Handles(1) : Tensor_value(1, i)
    \/ \E i \in Handles(1) : Tensor_grad(1, i)

SpecRead == Init /\ [][ReadNext]_vars

-----------------------------------------------------------------------------
(* One graph of 2x2 matrices and one rank-1 leaf: leaves, matmul, forward *)

\* the value offered for a leaf created at index len: the leaf at index 1 is
\* the vector [1,2], every other leaf the matrix [[1,1],[0,1]]
LeafValsM(len) ==
    IF len = 1 THEN {Vec(<<1, 2>>)} ELSE {Mat(2, 2, <<1, 1, 0, 1>>)}

MatNext ==
    \/ \E v \in LeafValsM(Len(nodes[1])) :
          Len(nodes[1]) < MaxNodesM /\ Graph_tensor(1, v)
    \/ \E i \in Handles(1), j \in Handles(1) :
          Len(nodes[1]) < MaxNodesM /\ Tensor_matmul(1, i, 1, j)
    \/ \E t \in Handles(1) : ncalls < MaxCallsM /\ Tensor_forward(1, t)

SpecMat == Init /\ [][MatNext]_vars

-----------------------------------------------------------------------------
(* One graph of 2x2 matrices: leaves, +, *, matmul, expm, forward, backward *)

\* the value offered for a leaf created at index len: x = diag(0, 1) first,
\* then [[1,1],[0,1]]
LeafValsA(len) ==
    IF len = 0 THEN {Mat(2, 2, <<0, 0, 0, 1>>)} ELSE {Mat(2, 2, <<1, 1, 0, 1>>)}

SeedsA == {Mat(2, 2, <<1, 1, 1, 1>>)}

AllNext ==
    \/ \E v \in LeafValsA(Len(nodes[1])) :
          Len(nodes[1]) < MaxNodesA /\ Graph_tensor(1, v)
    \/ \E i \in Handles(1), j \in Handles(1) :
          Len(nodes[1]) < MaxNodesA /\ Tensor_add(1, i, 1, j)
    \/ \E i \in Handles(1), j \in Handles(1) :
          Len(nodes[1]) < MaxNodesA /\ Tensor_mul(1, i, 1, j)
    \/ \E i \in Handles(1), j \in Handles(1) :
          Len(nodes[1]) < MaxNodesA /\ Tensor_matmul(1, i, 1, j)
    \/ \E i \in Handles(1) :       \* expm of a leaf, as in bin.rs and the bench
          /\ Len(nodes[1]) < MaxNodesA
          /\ Arity(NodeAt(nodes[1], i).func) = 0
          /\ Tensor_expm(1, i)
    \/ \E t \in Handles(1) : ncalls < MaxCallsA /\ Tensor_forward(1, t)
    \/ \E t \in Handles(1), s \in SeedsA :
          ncalls < MaxCallsA /\ Tensor_backward(1, t, s)

SpecAll == Init /\ [][AllNext]_vars

-----------------------------------------------------------------------------
(* Properties *)

IsLeaf(n) == n.func.kind = "None"

\* the tensor in cell c
Cell(c) == heap[c]

\* C1: after any sequence of leaf creations and applications of +, *, matmul
\* and expm on one graph, every leaf at index i has deps = [i, i] and every
\* operation node at index i has both dependency indices strictly below i.
C1_DepsOrdered ==
    \A i \in Handles(1) :
        LET n == NodeAt(nodes[1], i)
        IN  IF IsLeaf(n) THEN n.deps = <<i, i>>
            ELSE n.deps[1] < i /\ n.deps[2] < i

\* a tape on which expm of a matmul node follows two leaves
C1_Witness ==
    /\ Len(nodes[1]) = 4
    /\ IsLeaf(NodeAt(nodes[1], 0)) /\ IsLeaf(NodeAt(nodes[1], 1))
    /\ NodeAt(nodes[1], 2).func.kind = "MatMul"
    /\ NodeAt(nodes[1], 2).deps = <<1, 0>>
    /\ NodeAt(nodes[1], 3).func.kind = "ExpM"
    /\ NodeAt(nodes[1], 3).deps = <<2, 2>>
    /\ last.op = "expm"

\* what the operation of node n yields on the values a and b of its operands
OpValue(n, a, b) ==
    CASE n.func.kind = "Add" -> T_add(a, b)
      [] n.func.kind = "Mul" -> T_mul(a, b)
      [] n.func.kind = "MatMul" -> T_matmul(a, b)
      [] n.func.kind = "ExpM" -> T_mul(T_eye_like(a), T_expm(a))

\* node i of graph 1 holds a value, and an operation node holds what its
\* operation yields on the values its dependencies hold
ValueComputed(i) ==
    LET n == NodeAt(nodes[1], i)
        a == NodeAt(nodes[1], n.deps[1]).value
        b == NodeAt(nodes[1], n.deps[2]).value
    IN  /\ n.value # None
        /\ ~IsLeaf(n) =>
              /\ a # None /\ b # None
              /\ Cell(n.value) = OpValue(n, Cell(a), Cell(b))

\* C2: forward on a handle with any index t reads no absent dependency value:
\* it completes, and then every node with index <= t holds a value, which for
\* an operation node is its operation applied to the values of its
\* dependencies.
C2_ForwardComputes ==
    last.op = "forward" =>
        /\ last.ok /\ panic = "none"
        /\ \A i \in 0..last.index : ValueComputed(i)

\* forward has run to an operation node one of whose operands is an
\* operation node
C2_Witness ==
    /\ last.op = "forward" /\ last.index = 2 /\ last.ok
    /\ NodeAt(nodes[1], 2).func.kind = "Mul"
    /\ NodeAt(nodes[1], 2).deps = <<1, 0>>
    /\ NodeAt(nodes[1], 1).func.kind = "Add"

\* the nodes on a dependency path from node t (t included), found by
\* descending from t
RECURSIVE ReachFrom(_, _)
ReachFrom(i, S) ==
    IF i < 0 THEN S
    ELSE LET n == NodeAt(nodes[1], i)
         IN  ReachFrom(i - 1, IF i \in S /\ ~IsLeaf(n)
                              THEN S \cup {n.deps[1], n.deps[2]} ELSE S)

Reach(t) == ReachFrom(t, {t})

Zeros(a) == T_val_like(a, 0)

\* the gradient of node d, an absent gradient read as zero
GradOrZero(d) ==
    LET n == NodeAt(nodes[1], d)
    IN  IF n.grad = None THEN Zeros(Cell(n.value)) ELSE Cell(n.grad)

\* the j-th partial that the backward of node i returns for the gradient
\* node i holds (NoTensor when the slot is None)
Partial(i, j) ==
    LET n == NodeAt(nodes[1], i)
        r == Fn_backward(n.func, heap, n.grad)
    IN  IF r.ctx[j] = None THEN NoTensor ELSE r.heap[r.ctx[j]]

\* acc plus the partials of slot j of the operation nodes i, i-1, .., 0 whose
\* dependency in slot j is d
RECURSIVE SumPartials(_, _, _)
SumPartials(d, i, acc) ==
    IF i < 0 THEN acc
    ELSE LET n == NodeAt(nodes[1], i)
             a0 == IF ~IsLeaf(n) /\ n.deps[1] = d /\ Partial(i, 1) # NoTensor
                   THEN T_add(acc, Partial(i, 1)) ELSE acc
             a1 == IF ~IsLeaf(n) /\ n.deps[2] = d /\ Partial(i, 2) # NoTensor
                   THEN T_add(a0, Partial(i, 2)) ELSE a0
         IN  SumPartials(d, i - 1, a1)

\* one backward pass has just returned; it started from the last node t of a
\* tape every node of which holds a value and every operation node of which
\* lies on a dependency path from t
OnePassFromLast ==
    /\ last.op = "backward" /\ last.ok /\ nbwd = 1
    /\ last.index = Len(nodes[1]) - 1
    /\ \A i \in Handles(1) : NodeAt(nodes[1], i).value # None
    /\ \A i \in Handles(1) : ~IsLeaf(NodeAt(nodes[1], i)) => i \in Reach(last.index)

\* the tape is x = [1,2], y = [3,4], z = x + y, w = z + x
ScenarioA ==
    /\ Len(nodes[1]) = 4
    /\ ScenarioA_xyz
    /\ NodeAt(nodes[1], 3).func.kind = "Add"
    /\ NodeAt(nodes[1], 3).deps = <<2, 0>>

\* C3: after one backward pass with seed s from the last node t (forward has
\* run, no backward ran before, every operation node is on a dependency path
\* from t) the gradient of every node d is (s if d = t, else zero) plus the
\* sum, over the operation nodes i and slots j with deps[i][j] = d, of the
\* j-th partial of node i's backward on node i's gradient; in scenario A with
\* seed [1,1]: w.grad = z.grad = y.grad = [1,1] and x.grad = [2,2].
C3_GradientSum ==
    OnePassFromLast =>
        /\ \A d \in Handles(1) :
              GradOrZero(d) =
                  SumPartials(d, Len(nodes[1]) - 1,
                              IF d = last.index THEN last.arg
                              ELSE Zeros(Cell(NodeAt(nodes[1], d).value)))
        /\ (ScenarioA /\ last.arg = Vec(<<1, 1>>)) =>
              /\ Cell(NodeAt(nodes[1], 3).grad) = Vec(<<1, 1>>)
              /\ Cell(NodeAt(nodes[1], 2).grad) = Vec(<<1, 1>>)
              /\ Cell(NodeAt(nodes[1], 1).grad) = Vec(<<1, 1>>)
              /\ Cell(NodeAt(nodes[1], 0).grad) = Vec(<<2, 2>>)

\* scenario A after forward and backward([1,1]) from w
C3_Witness ==
    /\ OnePassFromLast /\ ScenarioA
    /\ last.arg = Vec(<<1, 1>>) /\ fwdmax = 3
    /\ Cell(NodeAt(nodes[1], 3).value) = Vec(<<5, 8>>)

\* C4: backward(seed) on a handle at index t sets node t's gradient to seed,
\* and when the call returns node t's gradient equals seed, on every graph
\* (nodes with index above t included) and after any earlier backward passes.
C4_SeedKept ==
    (last.op = "backward" /\ last.ok) =>
        /\ NodeAt(nodes[1], last.index).grad # None
        /\ Cell(NodeAt(nodes[1], last.index).grad) = last.arg

\* C5: value() on an operation node that no forward call has covered, and
\* grad() on any node before any backward call, fail with "not yet computed"
\* and return nothing; value() on a leaf succeeds at any time and returns the
\* value the leaf was created with.
C5_ReadBeforeCompute ==
    /\ (/\ ret.op = "value"
        /\ ~IsLeaf(NodeAt(nodes[1], ret.index))
        /\ ret.index > fwdmax)
          => (panic = "Was forward called?" /\ ret.val = NoTensor)
    /\ (ret.op = "grad" /\ nbwd = 0)
          => (panic = "Was backward called?" /\ ret.val = NoTensor)
    /\ (ret.op = "value" /\ IsLeaf(NodeAt(nodes[1], ret.index)))
          => (panic = "none" /\ ret.val \in LeafVals(ret.index))

\* value() was called on an operation node above the index forward ran to
C5_Witness ==
    /\ ret.op = "value" /\ ret.index = 1 /\ fwdmax = 0
    /\ NodeAt(nodes[1], 1).func.kind = "Mul"
    /\ panic = "Was forward called?"

CrossGraph(c) == c.op \in {"add", "mul", "matmul"} /\ c.graph # c.ograph

\* C6: +, * or matmul on two handles of different Graph instances fails, and
\* the failing call appends no node to either graph and changes no node.
C6_CrossGraphRejected ==
    [][CrossGraph(last') =>
          (~last'.ok /\ panic' # "none" /\ nodes' = nodes /\ heap' = heap)]_vars

\* matmul was applied to a handle of graph 2 and a handle of graph 1
C6_Witness ==
    /\ last.op = "matmul" /\ last.graph = 2 /\ last.ograph = 1
    /\ Len(nodes[1]) = 2 /\ Len(nodes[2]) = 1
    /\ panic # "none"

\* the tensor in cell c of heap h, NoTensor for None
Content(h, c) == IF c = None THEN NoTensor ELSE h[c]

\* C7: forward called twice on the same target index t with no node appended
\* in between leaves every node with index <= t with the same value after the
\* second call as after the first, and changes no gradient, partial or
\* dependency of any node.
C7_ForwardTwice ==
    [][(/\ last.op = "forward" /\ last'.op = "forward"
        /\ last'.index = last.index /\ ncalls' = ncalls + 1)
       => /\ last'.ok
          /\ Len(nodes'[1]) = Len(nodes[1])
          /\ \A i \in 0..last.index :
                /\ NodeAt(nodes'[1], i).value # None
                /\ Content(heap', NodeAt(nodes'[1], i).value)
                      = Content(heap, NodeAt(nodes[1], i).value)
          /\ \A i \in Handles(1) :
                LET n == NodeAt(nodes[1], i)
                    m == NodeAt(nodes'[1], i)
                IN  /\ m.deps = n.deps /\ m.grad = n.grad /\ m.ctx = n.ctx
                    /\ Content(heap', m.grad) = Content(heap, n.grad)
                    /\ Content(heap', m.ctx[1]) = Content(heap, n.ctx[1])
                    /\ Content(heap', m.ctx[2]) = Content(heap, n.ctx[2])]_vars

\* forward ran twice in a row to an operation node with an operation operand
C7_Witness ==
    /\ last.op = "forward" /\ prev.op = "forward"
    /\ last.index = 2 /\ prev.index = 2 /\ last.ok
    /\ NodeAt(nodes[1], 2).func.kind = "Add"
    /\ NodeAt(nodes[1], 1).func.kind = "Mul"
    /\ NodeAt(nodes[1], 2).deps = <<1, 1>>

\* every node up to t holds a value and every operation node up to t lies on
\* a dependency path from t
ConeReady(t) ==
    \A i \in 0..t :
        /\ NodeAt(nodes[1], i).value # None
        /\ ~IsLeaf(NodeAt(nodes[1], i)) => i \in Reach(t)

\* C8: during backward from t, an operation node below t that has no
\* gradient when visited (on no dependency path from t, never given one) is
\* no error: backward completes, the node contributes nothing and its
\* gradient stays absent.  (Stated for t the last node of the tape.)
C8_AbsentGradientLegal ==
    (/\ last.op = "backward" /\ nbwd = 1
     /\ last.index = Len(nodes[1]) - 1
     /\ \A i \in Handles(1) : NodeAt(nodes[1], i).value # None
     /\ \E i \in Handles(1) :
           ~IsLeaf(NodeAt(nodes[1], i)) /\ i \notin Reach(last.index))
    => /\ last.ok
       /\ \A i \in Handles(1) :
             (~IsLeaf(NodeAt(nodes[1], i)) /\ i \notin Reach(last.index))
                => NodeAt(nodes[1], i).grad = None

\* C9: backward on a handle at index t visits only the nodes t down to 0: it
\* completes even when the graph holds operation nodes above t, and it leaves
\* the gradient and partials of every node above t unchanged.  (Stated for
\* tapes on which the nodes up to t are computed and all lead to t.)
C9_BackwardStopsAtTarget ==
    [][(/\ last'.op = "backward" /\ ncalls' = ncalls + 1
        /\ ConeReady(last'.index))
       => /\ last'.ok
          /\ \A i \in Handles(1) :
                i > last'.index =>
                    /\ NodeAt(nodes'[1], i).grad = NodeAt(nodes[1], i).grad
                    /\ NodeAt(nodes'[1], i).ctx = NodeAt(nodes[1], i).ctx]_vars

\* C10: backward from t with seed s, called again after it has completed,
\* leaves every node's gradient as the first call left it.  (Stated for t the
\* last node of the tape.)
C10_BackwardIdempotent ==
    [][(/\ last.op = "backward" /\ last.ok
        /\ last'.op = "backward" /\ ncalls' = ncalls + 1
        /\ last'.index = last.index /\ last'.arg = last.arg
        /\ last.index = Len(nodes[1]) - 1)
       => /\ last'.ok
          /\ \A i \in Handles(1) :
                Content(heap', NodeAt(nodes'[1], i).grad)
                    = Content(heap, NodeAt(nodes[1], i).grad)]_vars

\* node i is the only operation node that lists node d as a dependency
SoleConsumer(i, d) ==
    \A k \in Handles(1) :
        (k # i /\ ~IsLeaf(NodeAt(nodes[1], k))) =>
            (NodeAt(nodes[1], k).deps[1] # d /\ NodeAt(nodes[1], k).deps[2] # d)

\* C11: for a Mul node z = a * b whose forward has run, backward with incoming
\* gradient g returns the partials [b*g, a*g] in slot order, a and b being the
\* operand values seen by the node's most recent forward (the values its
\* dependencies hold); after a backward pass these are the amounts added to
\* the gradients of deps[0] and deps[1] (seen on a first pass, where z is the
\* only node that uses the operand and the operand is not the target).
C11_MulPartials ==
    (last.op = "backward" /\ last.ok) =>
        \A i \in Handles(1) :
            LET n == NodeAt(nodes[1], i)
                g == Cell(n.grad)
                a == Cell(n.func.x_ctx)
                b == Cell(n.func.y_ctx)
                d0 == n.deps[1]
                d1 == n.deps[2]
            IN  n.func.kind = "Mul" =>
                  /\ n.ctx[1] # None /\ n.ctx[2] # None
                  /\ a = Cell(NodeAt(nodes[1], d0).value)
                  /\ b = Cell(NodeAt(nodes[1], d1).value)
                  /\ Cell(n.ctx[1]).sh = g.sh /\ Cell(n.ctx[2]).sh = g.sh
                  /\ \A k \in 1..Len(g.d) :
                        /\ Cell(n.ctx[1]).d[k] = RMul(b.d[k], g.d[k])
                        /\ Cell(n.ctx[2]).d[k] = RMul(a.d[k], g.d[k])
                  /\ (nbwd = 1 /\ d0 # d1 /\ d0 # last.index /\ SoleConsumer(i, d0))
                        => Cell(NodeAt(nodes[1], d0).grad) = Cell(n.ctx[1])
                  /\ (nbwd = 1 /\ d0 # d1 /\ d1 # last.index /\ SoleConsumer(i, d1))
                        => Cell(NodeAt(nodes[1], d1).grad) = Cell(n.ctx[2])
                  /\ (nbwd = 1 /\ d0 = d1 /\ d0 # last.index /\ SoleConsumer(i, d0))
                        => Cell(NodeAt(nodes[1], d0).grad)
                              = T_add(Cell(n.ctx[1]), Cell(n.ctx[2]))

\* x = [1,2], y = [3,4], z = x * y after forward and backward([1,1]) from z:
\* x.grad = [3,4] and y.grad = [1,2]
C11_Witness ==
    /\ last.op = "backward" /\ last.ok /\ nbwd = 1 /\ last.index = 2
    /\ Len(nodes[1]) = 3
    /\ NodeAt(nodes[1], 2).func.kind = "Mul"
    /\ NodeAt(nodes[1], 2).deps = <<0, 1>>
    /\ Cell(NodeAt(nodes[1], 2).value) = Vec(<<3, 8>>)
    /\ Cell(NodeAt(nodes[1], 0).grad) = Vec(<<3, 4>>)
    /\ Cell(NodeAt(nodes[1], 1).grad) = Vec(<<1, 2>>)

\* cell c holds an array that is not rank-2
NotRank2(h, c) == c # None /\ Len(h[c].sh) # 2

\* node i of the tape ns is a MatMul node with an operand that is not rank-2
BadMatMul(ns, h, i) ==
    /\ NodeAt(ns, i).func.kind = "MatMul"
    /\ \/ NotRank2(h, NodeAt(ns, NodeAt(ns, i).deps[1]).value)
       \/ NotRank2(h, NodeAt(ns, NodeAt(ns, i).deps[2]).value)

Scale(c, num, den) ==
    [sh |-> c.sh, d |-> [k \in 1..Len(c.d) |-> RMul(c.d[k], Rat(num, den))]]

\* C_k, the nested commutator of a with g: C_1 = g, C_k = a*C_(k-1) - C_(k-1)*a
RECURSIVE NestedCommu(_, _, _)
NestedCommu(a, g, k) ==
    IF k = 1 THEN g
    ELSE LET p == NestedCommu(a, g, k - 1)
         IN  T_sub(T_matmul(a, p), T_matmul(p, a))

\* g + s*C_2/2 - s*C_3/6 + s*C_4/24 - s*C_5/120 + s*C_6/720: with s = 1 the
\* term of order k has the sign (-1)^k, with s = -1 the sign (-1)^(k+1)
SeriesSum(a, g, s) ==
    T_add(T_add(T_add(T_add(T_add(g,
        Scale(NestedCommu(a, g, 2), s, 2)),
        Scale(NestedCommu(a, g, 3), -s, 6)),
        Scale(NestedCommu(a, g, 4), s, 24)),
        Scale(NestedCommu(a, g, 5), -s, 120)),
        Scale(NestedCommu(a, g, 6), s, 720))

\* after a completed backward, every ExpM node holds the partials
\* [forward result matmul SeriesSum(input, gradient, s), None]
ExpMPartials(s) ==
    (last.op = "backward" /\ last.ok) =>
        \A i \in Handles(1) :
            LET n == NodeAt(nodes[1], i)
            IN  n.func.kind = "ExpM" =>
                  /\ n.ctx[1] # None /\ n.ctx[2] = None
                  /\ Cell(n.ctx[1]) =
                        T_matmul(Cell(n.value),
                                 SeriesSum(Cell(NodeAt(nodes[1], n.deps[1]).value),
                                           Cell(n.grad), s))

\* C13 as stated: ExpM backward with incoming gradient g computes
\* total = g + sum over k = 2..6 of ((-1)^k / k!) * C_k, five terms with the
\* denominators 2, 6, 24, 120, 720 and the sign (-1)^k, and returns
\* [forward_result matmul total, None].
C13_SeriesAsClaimed == ExpMPartials(1)

\* C13, amended: ExpM backward with incoming gradient g computes
\* total = g + sum over k = 2..6 of ((-1)^(k+1) / k!) * C_k, five terms with
\* the denominators 2, 6, 24, 120, 720 and the sign -1 for even k and +1 for
\* odd k, and returns [forward_result matmul total, None].
C13_SeriesAmended == ExpMPartials(-1)

\* x = diag(0, 1), z = expm(x) after forward and backward(ones) from z: the
\* partial is diag(1, e) * [[1, 1237/720], [91/144, 1]], e being ExpScalar(1)
C13_Witness ==
    /\ last.op = "backward" /\ last.ok /\ last.index = 1 /\ nbwd = 1
    /\ NodeAt(nodes[1], 1).func.kind = "ExpM"
    /\ Cell(NodeAt(nodes[1], 0).value) = Mat(2, 2, <<0, 0, 0, 1>>)
    /\ Cell(NodeAt(nodes[1], 1).grad) = Mat(2, 2, <<1, 1, 1, 1>>)
    /\ Cell(NodeAt(nodes[1], 1).ctx[1]) =
          [sh |-> <<2, 2>>,
           d |-> <<R(1), <<1237, 720>>,
                   RMul(ExpScalar(R(1)), <<91, 144>>), ExpScalar(R(1))>>]

IsOperator(c) == c.op \in {"add", "mul", "matmul", "expm"}

\* the catalog entry an operator pushes, with its cached state empty
FreshFn(op) ==
    CASE op = "add" -> FnAdd
      [] op = "mul" -> FnMul
      [] op = "matmul" -> FnMatMul
      [] op = "expm" -> FnExpM

\* C14: each application of +, *, matmul or expm appends exactly one node, at
\* the index that was the graph's length, with deps equal to the operand
\* indices, a fresh catalog entry and value, gradient and partials absent;
\* it returns a handle with that index and leaves every existing node (deps,
\* operation, value, gradient, partials) and every cell unchanged.
C14_OperatorsOnlyBuild ==
    [][(IsOperator(last') /\ ncalls' = ncalls) =>
          LET len == Len(nodes[1])
          IN  /\ last'.ok /\ panic' = "none"
              /\ Len(nodes'[1]) = len + 1
              /\ last'.out = len
              /\ NodeAt(nodes'[1], len).deps =
                    <<last'.index,
                      IF last'.op = "expm" THEN last'.index ELSE last'.other>>
              /\ NodeAt(nodes'[1], len).func = FreshFn(last'.op)
              /\ NodeAt(nodes'[1], len).value = None
              /\ NodeAt(nodes'[1], len).grad = None
              /\ NodeAt(nodes'[1], len).ctx = <<None, None>>
              /\ \A i \in Handles(1) : NodeAt(nodes'[1], i) = NodeAt(nodes[1], i)
              /\ heap' = heap]_vars

\* z = x * x was applied after x.backward: x holds a value and a gradient,
\* z neither
C14_Witness ==
    /\ last.op = "mul" /\ last.out = 1 /\ last.index = 0 /\ last.other = 0
    /\ nbwd = 1
    /\ NodeAt(nodes[1], 0).value # None /\ NodeAt(nodes[1], 0).grad # None
    /\ NodeAt(nodes[1], 1).value = None /\ NodeAt(nodes[1], 1).grad = None

\* C15: over any sequence of forward calls, each operation node's value field
\* is written exactly once: a forward call that covers a node whose value is
\* already present leaves that node's value (its cell and the cell's content)
\* as it was, and a leaf's value is never written by forward.
C15_ValueWrittenOnce ==
    [][(last'.op = "forward" /\ ncalls' = ncalls + 1) =>
          \A i \in Handles(1) :
              LET n == NodeAt(nodes[1], i)
                  m == NodeAt(nodes'[1], i)
              IN  n.value # None =>
                    /\ m.value = n.value
                    /\ heap'[m.value] = heap[n.value]]_vars

\* the sum, element by element, of the arrays a and b of one shape
Plus(a, b) == [sh |-> a.sh, d |-> [k \in 1..Len(a.d) |-> RAdd(a.d[k], b.d[k])]]

\* C16: when an operation node z lists the same node x in both dependency
\* slots, a backward pass adds every non-absent slot partial into x's
\* gradient: both for x + x and x * x (for z = x + x with seed g on a fresh
\* graph, x.grad = g + g), the single one, once, for expm(x).  (Stated after
\* a first pass, z being the only node that uses x and x not the target.)
C16_SameNodeBothSlots ==
    (last.op = "backward" /\ last.ok /\ nbwd = 1) =>
        \A i \in Handles(1) :
            LET n == NodeAt(nodes[1], i)
                x == n.deps[1]
                gx == NodeAt(nodes[1], x).grad
            IN  (/\ ~IsLeaf(n) /\ n.deps[2] = x
                 /\ x # last.index /\ SoleConsumer(i, x))
                => /\ gx # None
                   /\ n.func.kind \in {"Add", "Mul", "MatMul"} =>
                         /\ n.ctx[1] # None /\ n.ctx[2] # None
                         /\ Cell(gx) = Plus(Cell(n.ctx[1]), Cell(n.ctx[2]))
                   /\ n.func.kind = "Add" =>
                         Cell(gx) = Plus(Cell(n.grad), Cell(n.grad))
                   /\ (n.func.kind = "Add" /\ i = last.index) =>
                         Cell(gx) = Plus(last.arg, last.arg)
                   /\ n.func.kind = "ExpM" =>
                         /\ n.ctx[1] # None /\ n.ctx[2] = None
                         /\ Cell(gx) = Cell(n.ctx[1])

\* z = x + x on a fresh graph after backward(ones) from z: x.grad is all twos
C16_Witness ==
    /\ last.op = "backward" /\ last.ok /\ nbwd = 1 /\ last.index = 1
    /\ Len(nodes[1]) = 2
    /\ NodeAt(nodes[1], 1).func.kind = "Add"
    /\ NodeAt(nodes[1], 1).deps = <<0, 0>>
    /\ last.arg = Mat(2, 2, <<1, 1, 1, 1>>)
    /\ Cell(NodeAt(nodes[1], 0).grad) = Mat(2, 2, <<2, 2, 2, 2>>)

\* operation node k lists node i as a dependency
Uses(k, i) ==
    /\ ~IsLeaf(NodeAt(nodes[1], k))
    /\ (NodeAt(nodes[1], k).deps[1] = i \/ NodeAt(nodes[1], k).deps[2] = i)

\* C17: within one backward pass from target t, at the moment the backward
\* of an operation node i is invoked, every operation node k with i < k <= t
\* that lists i as a dependency has already been visited and has already
\* added its partials into node i's gradient, and node i's gradient is not
\* written again later in that pass.
C17_ConsumersFirst ==
    last.op = "backward" =>
        \A p \in 1..Len(last.log) :
            last.log[p].ev = "bwd" =>
                LET i == last.log[p].node
                IN  /\ \A k \in Handles(1) :
                          (i < k /\ k <= last.index /\ Uses(k, i)) =>
                              /\ \E q \in 1..(p - 1) : last.log[q] = EvBwd(k)
                              /\ \A j \in {0, 1} :
                                    (/\ NodeAt(nodes[1], k).deps[j + 1] = i
                                     /\ NodeAt(nodes[1], k).ctx[j + 1] # None)
                                    => \E q \in 1..(p - 1) :
                                          last.log[q] = EvAcc(k, j, i)
                    /\ \A q \in (p + 1)..Len(last.log) :
                          ~(last.log[q].ev = "acc" /\ last.log[q].dep = i)

\* x, z = x * x, w = z + z after forward and backward from w: w's backward,
\* its two additions into z.grad, z's backward, its two additions into x.grad
C17_Witness ==
    /\ last.op = "backward" /\ last.ok /\ last.index = 2
    /\ NodeAt(nodes[1], 1).func.kind = "Mul" /\ NodeAt(nodes[1], 1).deps = <<0, 0>>
    /\ NodeAt(nodes[1], 2).func.kind = "Add" /\ NodeAt(nodes[1], 2).deps = <<1, 1>>
    /\ last.log = <<EvBwd(2), EvAcc(2, 0, 1), EvAcc(2, 1, 1),
                    EvBwd(1), EvAcc(1, 0, 0), EvAcc(1, 1, 0)>>

\* in the tape ns no gradient cell is the gradient cell of another node or
\* the value cell of any node
NoGradAlias(ns) ==
    \A i \in 1..Len(ns) :
        ns[i].grad # None =>
            \A k \in 1..Len(ns) :
                /\ k # i => ns[k].grad # ns[i].grad
                /\ ns[k].value # ns[i].grad

\* C18: after any sequence of leaf creations, operator applications, forward
\* and backward calls, the cell holding one node's gradient is never the cell
\* of another node's gradient or of any node's value; a backward pass leaves
\* every value (cell and content) as it was, and changes the gradient of a
\* node only if that node is the target or a slot of the pass wrote into it.
C18_GradientCellsDistinct ==
    [][/\ NoGradAlias(nodes'[1])
       /\ (last'.op = "backward" /\ ncalls' = ncalls + 1) =>
             \A d \in Handles(1) :
                 LET n == NodeAt(nodes[1], d)
                     m == NodeAt(nodes'[1], d)
                 IN  /\ m.value = n.value
                     /\ Content(heap', m.value) = Content(heap, n.value)
                     /\ Content(heap', m.grad) # Content(heap, n.grad) =>
                           \/ d = last'.index
                           \/ \E q \in 1..Len(last'.log) :
                                 /\ last'.log[q].ev = "acc"
                                 /\ last'.log[q].dep = d]_vars

\* z = x + x after backward from z: the partials of z are z's own gradient
\* cell in both slots, and x's gradient is another cell, holding twice the seed
C18_Witness ==
    /\ last.op = "backward" /\ last.ok /\ last.index = 1
    /\ NodeAt(nodes[1], 1).func.kind = "Add"
    /\ NodeAt(nodes[1], 1).deps = <<0, 0>>
    /\ NodeAt(nodes[1], 1).grad # None
    /\ NodeAt(nodes[1], 1).ctx = <<NodeAt(nodes[1], 1).grad, NodeAt(nodes[1], 1).grad>>
    /\ NodeAt(nodes[1], 0).grad # None
    /\ NodeAt(nodes[1], 0).grad # NodeAt(nodes[1], 1).grad
    /\ Cell(NodeAt(nodes[1], 1).grad) = last.arg
    /\ Cell(NodeAt(nodes[1], 0).grad) = Plus(last.arg, last.arg)

====
